---- MODULE Spec2Model ----
(***************************************************************************)
(* Model of the practice-session controller of the flashcards plugin       *)
(* (src/plugin.js): the plugin instance's session fields, the keydown      *)
(* listeners it registers on the document, the practice panel's DOM, the   *)
(* line items' persisted card metadata, and the continuations of the       *)
(* async methods that are suspended at an await.                           *)
(*                                                                         *)
(* Environment: the workspace shows one panel, which is the active one     *)
(* (ui.getActivePanel() returns it, panel.isActive() is true), and         *)
(* navigateToCustomType(PANEL_ID) runs the registered render callback      *)
(* (plugin.js:355-359).  closePanel removes the panel's DOM; listeners     *)
(* bound to a closed panel never pass the isActive() test again.           *)
(*                                                                         *)
(* Specifications: Spec (the practice session), SpecCollect (the due-set   *)
(* collector over arbitrary workspaces), SpecMeta (metaToCard and          *)
(* cardToMeta over arbitrary cards and metadata), SpecGenerate             *)
(* (generateFlashcards over arbitrary workspaces), SpecCards (generation,  *)
(* collection and rating together), SpecLive (sessions under a user who    *)
(* keeps revealing and rating, with saves that complete) and SpecSkip      *)
(* (collection and generation over records whose line items cannot be      *)
(* read).                                                                  *)
(***************************************************************************)
EXTENDS Integers, Naturals, Sequences, FiniteSets, TLC

\* ---- bounds ----------------------------------------------------------------
NumItems == 3          \* line items in the workspace
MaxCards == 2          \* line items holding flashcard text when a session run starts
NumRecords == 2        \* records (notes); item i belongs to record RecordOf(i)
MaxTime == 1           \* the clock runs from 0 to MaxTime
MaxSessions == 2       \* session installs (starts / restored renders) per run
MaxRateTasks == 2      \* _rateCard continuations suspended at the save
MaxCollectTasks == 1   \* _collectDueCards continuations suspended at getLineItems
MaxHandlers == 1       \* stale keydown listeners left on the document
MaxGenRuns == 2        \* runs of generateFlashcards
MaxReps == 2           \* reps of the cards the conversions are tried on

\* ---- program constants -----------------------------------------------------
Again == 1
Hard == 2
Good == 3
Easy == 4
Grades == {Again, Hard, Good, Easy}

\* the ratings the user gives in the checked runs, and the keys pressed
RatedGrades == {Again, Good}
PressedKeys == {"Space", "1", "3"}

StateNew == 0
StateLearning == 1
StateReview == 2
StateRelearning == 3

NoValue == -1          \* an absent property / undefined
Null == -2             \* null
Garbage == -3          \* a string that is neither a number nor a date
NaN == -4              \* NaN / Invalid Date
IsoBase == 1000        \* ISO date strings are IsoBase + ticks

Items == 1..NumItems
Records == 1..NumRecords
RecordOf(i) == ((i - 1) % NumRecords) + 1

\* ---- state -----------------------------------------------------------------
VARIABLES
  dueCardsSet,          \* this._dueCards is an array (not null / undefined)
  dueCards,             \* this._dueCards || []
  practiceIndex,        \* this._practiceIndex || 0
  practiceRevealed,     \* this._practiceRevealed
  statsSet,             \* this._practiceStats is an object
  practiceStats,        \* this._practiceStats (zeros when null)
  practiceRecordGuids,  \* this._practiceRecordGuids: [all, ids]
  keyHandler,           \* this._keyHandler is set (and registered)
  staleHandlers,        \* listeners registered by earlier renders, never removed
  panelEl,              \* this._panelEl / this._panel are set
  screen,               \* what the panel's DOM shows: [kind, idx, total, preview]
  store,                \* line item -> persisted card metadata
  now,                  \* the clock (new Date())
  rateTasks,            \* _rateCard calls awaiting setMetaProperties
  collectTasks,         \* _collectDueCards calls awaiting getLineItems
  epoch,                \* number of sessions installed so far
  last,                 \* the save settlement this state results from, if any
  sess,                 \* history of the current session
  rated,                \* queue indices whose rating was saved in the current session
  texts,                \* line item -> the text of its segments
  coll,                 \* the collection this state results from, if any
  genTasks,             \* generateFlashcards calls suspended at an await
  toast,                \* the counts of the last "Flashcards generated" toast
  genHist,              \* history of the generateFlashcards runs
  probe                 \* a card, its saved properties and the card read back

vars == <<dueCardsSet, dueCards, practiceIndex, practiceRevealed, statsSet,
          practiceStats, practiceRecordGuids, keyHandler, staleHandlers,
          panelEl, screen, store, now, rateTasks, collectTasks, epoch, last,
          sess, rated, texts, coll, genTasks, toast, genHist, probe>>

\* the whole state as one record, so that a method is an operator on it
St ==
  [dueCardsSet |-> dueCardsSet, dueCards |-> dueCards,
   practiceIndex |-> practiceIndex, practiceRevealed |-> practiceRevealed,
   statsSet |-> statsSet, practiceStats |-> practiceStats,
   practiceRecordGuids |-> practiceRecordGuids, keyHandler |-> keyHandler,
   staleHandlers |-> staleHandlers, panelEl |-> panelEl, screen |-> screen,
   store |-> store, now |-> now, rateTasks |-> rateTasks,
   collectTasks |-> collectTasks, epoch |-> epoch, last |-> last,
   sess |-> sess, rated |-> rated, texts |-> texts, coll |-> coll, genTasks |-> genTasks,
   toast |-> toast, genHist |-> genHist, probe |-> probe]

Commit(s) ==
  /\ dueCardsSet' = s.dueCardsSet
  /\ dueCards' = s.dueCards
  /\ practiceIndex' = s.practiceIndex
  /\ practiceRevealed' = s.practiceRevealed
  /\ statsSet' = s.statsSet
  /\ practiceStats' = s.practiceStats
  /\ practiceRecordGuids' = s.practiceRecordGuids
  /\ keyHandler' = s.keyHandler
  /\ staleHandlers' = s.staleHandlers
  /\ panelEl' = s.panelEl
  /\ screen' = s.screen
  /\ store' = s.store
  /\ now' = s.now
  /\ rateTasks' = s.rateTasks
  /\ collectTasks' = s.collectTasks
  /\ epoch' = s.epoch
  /\ last' = s.last
  /\ sess' = s.sess
  /\ rated' = s.rated
  /\ texts' = s.texts
  /\ coll' = s.coll
  /\ genTasks' = s.genTasks
  /\ toast' = s.toast
  /\ genHist' = s.genHist
  /\ probe' = s.probe

ZeroStats == [g \in Grades |-> 0]
NoGuids == [all |-> TRUE, ids |-> {}]
NoPreview == <<>>
Blank == [kind |-> "blank", idx |-> 0, total |-> 0, preview |-> NoPreview]
NoMeta == [due |-> NoValue, stability |-> NoValue, difficulty |-> NoValue,
           elapsed_days |-> NoValue, scheduled_days |-> NoValue,
           reps |-> NoValue, lapses |-> NoValue, learning_steps |-> NoValue,
           state |-> NoValue, last_review |-> NoValue]

RemoveAt(seq, k) == [j \in 1..(Len(seq) - 1) |-> IF j < k THEN seq[j] ELSE seq[j + 1]]

\* ---- property values --------------------------------------------------------
\* A property value is a number (0 .. IsoBase - 1), the ISO string of a time
\* (IsoBase + ticks), a string that is neither (Garbage), null, or absent
\* (NoValue, which also stands for undefined in a card).  NaN stands for NaN
\* and for an Invalid Date.  Times are clock ticks.
IsNumber(x) == x >= 0 /\ x < IsoBase
IsIso(x) == x >= IsoBase

\* date.toISOString()
toISOString(t) == IsoBase + t

\* new Date(x)
NewDate(x) ==
  IF IsIso(x) THEN x - IsoBase
  ELSE IF IsNumber(x) THEN x
  ELSE IF x = Null THEN 0
  ELSE NaN

\* Number(x)
ToNumber(x) ==
  IF IsNumber(x) THEN x
  ELSE IF x = Null THEN 0
  ELSE NaN

\* x ? ... : ...
Truthy(x) == x = Garbage \/ IsIso(x) \/ (IsNumber(x) /\ x # 0)

\* Number(x) with no default
NumberOr0_Raw(x) == ToNumber(x)

\* Number(x) || 0
NumberOr0(x) == IF ToNumber(x) \in {NaN, 0} THEN 0 ELSE ToNumber(x)

\* Number(x) ?? d: d only when the left side is null or undefined
NumberNullish(x, d) == IF ToNumber(x) \in {Null, NoValue} THEN d ELSE ToNumber(x)

\* a <= b on dates: false when a is an Invalid Date
DateLE(a, b) == a # NaN /\ b # NaN /\ a <= b

\* ---- line item text ---------------------------------------------------------------
Texts == {"q :: a", "plain", ":: a", "q ::"}

HasSeparator(text) == text \in {"q :: a", ":: a", "q ::"}
Question(text) == IF text \in {"q :: a", "q ::"} THEN "q" ELSE ""
Answer(text) == IF text \in {"q :: a", ":: a"} THEN "a" ELSE ""

\* parseFlashcard(lineItem) # null
parseFlashcard(text) == HasSeparator(text) /\ Question(text) # "" /\ Answer(text) # ""

\* ---- cards and their metadata ------------------------------------------------
\* createEmptyCard(new Date())
createEmptyCard(t) ==
  [due |-> t, stability |-> 0, difficulty |-> 0, elapsed_days |-> 0,
   scheduled_days |-> 0, reps |-> 0, lapses |-> 0, learning_steps |-> 0,
   state |-> StateNew, last_review |-> NoValue]

\* li.props && li.props[META.due] != null
hasCardMeta(props) == props.due \notin {NoValue, Null}

\* metaToCard that builds a date from last_review whatever it holds
metaToCard_AlwaysReviewed(props) ==
  [due |-> NewDate(props.due),
   stability |-> NumberOr0(props.stability),
   difficulty |-> NumberOr0(props.difficulty),
   elapsed_days |-> NumberOr0(props.elapsed_days),
   scheduled_days |-> NumberOr0(props.scheduled_days),
   reps |-> NumberOr0(props.reps),
   lapses |-> NumberOr0(props.lapses),
   learning_steps |-> NumberOr0(props.learning_steps),
   state |-> NumberNullish(props.state, StateNew),
   last_review |-> NewDate(props.last_review)]

metaToCard(props) ==
  [due |-> NewDate(props.due),
   stability |-> NumberOr0(props.stability),
   difficulty |-> NumberOr0(props.difficulty),
   elapsed_days |-> NumberOr0(props.elapsed_days),
   scheduled_days |-> NumberOr0(props.scheduled_days),
   reps |-> NumberOr0(props.reps),
   lapses |-> NumberOr0(props.lapses),
   learning_steps |-> NumberOr0(props.learning_steps),
   state |-> NumberNullish(props.state, StateNew),
   last_review |-> IF Truthy(props.last_review) THEN NewDate(props.last_review)
                   ELSE NoValue]

\* cardToMeta that writes null for last_review whatever the card holds
cardToMeta_DropsLastReview(card) ==
  [due |-> toISOString(card.due),
   stability |-> card.stability,
   difficulty |-> card.difficulty,
   elapsed_days |-> card.elapsed_days,
   scheduled_days |-> card.scheduled_days,
   reps |-> card.reps,
   lapses |-> card.lapses,
   learning_steps |-> card.learning_steps,
   state |-> card.state,
   last_review |-> Null]

\* the properties object handed to setMetaProperties
cardToMeta(card) ==
  [due |-> toISOString(card.due),
   stability |-> card.stability,
   difficulty |-> card.difficulty,
   elapsed_days |-> card.elapsed_days,
   scheduled_days |-> card.scheduled_days,
   reps |-> card.reps,
   lapses |-> card.lapses,
   learning_steps |-> card.learning_steps,
   state |-> card.state,
   last_review |-> IF card.last_review # NoValue THEN toISOString(card.last_review)
                   ELSE Null]

\* f.next(card, now, grade).card with enable_short_term: the next review is
\* at least one tick away
NextState(state, grade) ==
  CASE state = StateNew -> IF grade = Easy THEN StateReview ELSE StateLearning
    [] state = StateLearning -> IF grade \in {Good, Easy} THEN StateReview ELSE StateLearning
    [] state = StateReview -> IF grade = Again THEN StateRelearning ELSE StateReview
    [] OTHER -> IF grade \in {Good, Easy} THEN StateReview ELSE StateRelearning

\* the memory model's floats are abstracted: a reviewed card has stability 1
\* and difficulty 5
f_next(card, t, grade) ==
  [due |-> t + 1,
   stability |-> 1,
   difficulty |-> 5,
   elapsed_days |-> IF card.last_review = NoValue THEN 0 ELSE t - card.last_review,
   scheduled_days |-> IF card.last_review = NoValue THEN 0
                      ELSE card.due - card.last_review,
   reps |-> card.reps + 1,
   lapses |-> IF card.state = StateReview /\ grade = Again THEN card.lapses + 1
              ELSE card.lapses,
   learning_steps |-> 0,
   state |-> NextState(card.state, grade),
   last_review |-> t]

\* f.repeat(card, now): for each rating, the card f.next would give
f_repeat(card, t) == [g \in Grades |-> f_next(card, t, g)]

\* ---- the due-set collector ---------------------------------------------------
\* the line items of record r, in line order
ItemsOf(r) == {i \in Items : RecordOf(i) = r}

\* the loop over a record's line items with break where the code has continue
RECURSIVE DueOfItems_StopsAtSkipped(_, _, _, _)
DueOfItems_StopsAtSkipped(tx, st, t, items) ==
  IF items = {} THEN <<>>
  ELSE LET i == CHOOSE x \in items : \A y \in items : x <= y
           rest == DueOfItems_StopsAtSkipped(tx, st, t, items \ {i})
       IN IF parseFlashcard(tx[i]) /\ hasCardMeta(st[i])
             /\ DateLE(metaToCard(st[i]).due, t)
          THEN <<[lineItem |-> i, card |-> metaToCard(st[i])]>> \o rest
          ELSE <<>>

RECURSIVE DueOfItems(_, _, _, _)
DueOfItems(tx, st, t, items) ==
  IF items = {} THEN <<>>
  ELSE LET i == CHOOSE x \in items : \A y \in items : x <= y
           rest == DueOfItems(tx, st, t, items \ {i})
       IN IF parseFlashcard(tx[i]) /\ hasCardMeta(st[i])
             /\ DateLE(metaToCard(st[i]).due, t)
          THEN <<[lineItem |-> i, card |-> metaToCard(st[i])]>> \o rest
          ELSE rest

\* a sort that puts an entry before the entries of equal due already placed
RECURSIVE InsertByDue_Unstable(_, _)
InsertByDue_Unstable(sorted, e) ==
  IF sorted = <<>> THEN <<e>>
  ELSE IF sorted[Len(sorted)].card.due < e.card.due THEN Append(sorted, e)
  ELSE Append(InsertByDue_Unstable(SubSeq(sorted, 1, Len(sorted) - 1), e),
              sorted[Len(sorted)])

\* dueCards.sort((a, b) => a.card.due - b.card.due): a stable sort
RECURSIVE InsertByDue(_, _)
InsertByDue(sorted, e) ==
  IF sorted = <<>> THEN <<e>>
  ELSE IF sorted[Len(sorted)].card.due <= e.card.due THEN Append(sorted, e)
  ELSE Append(InsertByDue(SubSeq(sorted, 1, Len(sorted) - 1), e), sorted[Len(sorted)])

RECURSIVE SortByDue(_)
SortByDue(seq) ==
  IF seq = <<>> THEN <<>>
  ELSE InsertByDue(SortByDue(SubSeq(seq, 1, Len(seq) - 1)), seq[Len(seq)])

\* a filter that lets every record through
InFilter_Ignored(guids, r) == TRUE

\* !(recordGuids && !recordGuids.has(record.guid))
InFilter(guids, r) == guids.all \/ r \in guids.ids

\* the next record at or after r that passes the filter, 0 when there is none
NextRecord(guids, r) ==
  IF \E q \in Records : q >= r /\ InFilter(guids, q)
  THEN CHOOSE q \in Records : /\ q >= r /\ InFilter(guids, q)
                              /\ \A p \in Records : (p >= r /\ InFilter(guids, p)) => q <= p
  ELSE 0

\* ---- rendering -----------------------------------------------------------------
renderCurrentCard(s) ==
  IF ~s.panelEl THEN s
  ELSE LET total == Len(s.dueCards)
           idx == s.practiceIndex
       IN [s EXCEPT !.screen =
             IF total = 0
             THEN [kind |-> "empty", idx |-> 0, total |-> 0, preview |-> NoPreview]
             ELSE IF idx >= total
             THEN [kind |-> "done", idx |-> idx, total |-> total, preview |-> NoPreview]
             ELSE IF s.practiceRevealed
             THEN [kind |-> "revealed", idx |-> idx, total |-> total,
                   preview |-> f_repeat(s.dueCards[idx + 1].card, s.now)]
             ELSE [kind |-> "hidden", idx |-> idx, total |-> total,
                   preview |-> NoPreview]]

\* _renderPracticePanel from "const cards = this._dueCards" on
renderPanelRest(s) ==
  renderCurrentCard(
    [s EXCEPT !.staleHandlers = IF s.keyHandler THEN @ + 1 ELSE @,
              !.keyHandler = TRUE,
              !.panelEl = TRUE])

\* the assignments of a fresh session (plugin.js:614-617 and 814-817); epoch
\* counts them
installSession(s, due) ==
  [s EXCEPT !.dueCardsSet = TRUE,
            !.dueCards = due,
            !.practiceIndex = 0,
            !.practiceRevealed = FALSE,
            !.statsSet = TRUE,
            !.practiceStats = ZeroStats,
            !.epoch = @ + 1]

\* _startPracticeSession after "await this._collectDueCards"
finishStart(s, guids, due) ==
  renderPanelRest([installSession(s, due) EXCEPT !.practiceRecordGuids = guids])

\* _renderPracticePanel after "await this._collectDueCards"
finishRender(s, due) == renderPanelRest(installSession(s, due))

finishCollect(s, kind, guids, acc) ==
  IF kind = "start" THEN finishStart(s, guids, SortByDue(acc))
  ELSE finishRender(s, SortByDue(acc))

\* _collectDueCards up to its first "await record.getLineItems()"
collectDueCards(s, kind, guids) ==
  LET r == NextRecord(guids, 1)
  IN IF r = 0 THEN finishCollect(s, kind, guids, <<>>)
     ELSE [s EXCEPT !.collectTasks =
             Append(@, [kind |-> kind, guids |-> guids, now |-> s.now,
                        rec |-> r, acc |-> <<>>, skipped |-> {}])]

\* a collector whose pass ends at the first getLineItems that throws
collectResume_AbortsOnThrow(s, k, ok) ==
  LET t == s.collectTasks[k]
      acc == IF ok THEN t.acc \o DueOfItems(s.texts, s.store, t.now, ItemsOf(t.rec))
             ELSE t.acc
      skipped == IF ok THEN t.skipped ELSE t.skipped \cup {t.rec}
      r == IF ok THEN NextRecord(t.guids, t.rec + 1) ELSE 0
  IN IF r = 0
     THEN finishCollect([s EXCEPT !.collectTasks = RemoveAt(@, k)], t.kind, t.guids, acc)
     ELSE [s EXCEPT !.collectTasks[k] =
             [t EXCEPT !.rec = r, !.acc = acc, !.skipped = skipped]]

\* getLineItems of the awaited record settles: ok, or it throws (the task's
\* skipped field remembers the records that threw; the code keeps no such set)
collectResume(s, k, ok) ==
  LET t == s.collectTasks[k]
      acc == IF ok THEN t.acc \o DueOfItems(s.texts, s.store, t.now, ItemsOf(t.rec))
             ELSE t.acc
      skipped == IF ok THEN t.skipped ELSE t.skipped \cup {t.rec}
      r == NextRecord(t.guids, t.rec + 1)
  IN IF r = 0
     THEN finishCollect([s EXCEPT !.collectTasks = RemoveAt(@, k)], t.kind, t.guids, acc)
     ELSE [s EXCEPT !.collectTasks[k] =
             [t EXCEPT !.rec = r, !.acc = acc, !.skipped = skipped]]

startPracticeSession(s, guids) == collectDueCards(s, "start", guids)

renderPracticePanel(s) ==
  IF ~s.dueCardsSet THEN collectDueCards(s, "render", s.practiceRecordGuids)
  ELSE renderPanelRest(s)

\* ---- rating --------------------------------------------------------------------
\* _rateCard that schedules a fresh card in place of the entry's card
rateCard_FromStore(s, grade) ==
  LET idx == s.practiceIndex
  IN IF idx >= Len(s.dueCards) THEN s
     ELSE LET entry == s.dueCards[idx + 1]
              newCard == f_next(createEmptyCard(s.now), s.now, grade)
          IN [s EXCEPT !.rateTasks =
                Append(@, [idx |-> idx, grade |-> grade,
                           lineItem |-> entry.lineItem,
                           props |-> cardToMeta(newCard),
                           epoch |-> s.epoch])]

\* _rateCard that hands f.next the rating above the one chosen
rateCard_GradeUp(s, grade) ==
  LET idx == s.practiceIndex
  IN IF idx >= Len(s.dueCards) THEN s
     ELSE LET entry == s.dueCards[idx + 1]
              newCard == f_next(entry.card, s.now, IF grade < Easy THEN grade + 1 ELSE grade)
          IN [s EXCEPT !.rateTasks =
                Append(@, [idx |-> idx, grade |-> grade,
                           lineItem |-> entry.lineItem,
                           props |-> cardToMeta(newCard),
                           epoch |-> s.epoch])]

\* _rateCard up to "await cardToMeta(...)": the scheduler is applied and the
\* save is requested; the call stays suspended until the save settles
rateCard(s, grade) ==
  LET idx == s.practiceIndex
  IN IF idx >= Len(s.dueCards) THEN s
     ELSE LET entry == s.dueCards[idx + 1]
              newCard == f_next(entry.card, s.now, grade)
          IN [s EXCEPT !.rateTasks =
                Append(@, [idx |-> idx, grade |-> grade,
                           lineItem |-> entry.lineItem,
                           props |-> cardToMeta(newCard),
                           epoch |-> s.epoch])]

\* rateCardAdvance with a statKey table that files Good under Hard
rateCardAdvance_WrongStatKey(s, t) ==
  renderCurrentCard(
    [s EXCEPT !.practiceStats[IF t.grade = Good THEN Hard ELSE t.grade] =
                IF s.statsSet THEN @ + 1 ELSE @,
              !.practiceIndex = t.idx + 1,
              !.practiceRevealed = FALSE])

\* _rateCard after the await, the save having resolved (to true or false)
rateCardAdvance(s, t) ==
  renderCurrentCard(
    [s EXCEPT !.practiceStats[t.grade] = IF s.statsSet THEN @ + 1 ELSE @,
              !.practiceIndex = t.idx + 1,
              !.practiceRevealed = FALSE])

\* setMetaProperties of the k-th suspended _rateCard settles with outcome
\* "ok" (resolved true, properties written), "false" (resolved false) or
\* "rejected" (the await throws and the rest of _rateCard does not run)
rateCardResume(s, k, outcome) ==
  LET t == s.rateTasks[k]
      s1 == [s EXCEPT !.rateTasks = RemoveAt(@, k),
                      !.store[t.lineItem] = IF outcome = "ok" THEN t.props ELSE @,
                      !.last = [save |-> outcome,
                                result |-> IF outcome = "rejected" THEN "rejected"
                                           ELSE "undefined",
                                idx |-> t.idx, grade |-> t.grade,
                                epoch |-> t.epoch]]
  IN IF outcome = "rejected" THEN s1 ELSE rateCardAdvance(s1, t)

\* ---- generateFlashcards ------------------------------------------------------------
\* the run is over: the toast reports its counts
genToast(s, t) ==
  [s EXCEPT !.genTasks = <<>>,
            !.toast = [shown |-> TRUE, scanned |-> t.scanned, created |-> t.created,
                       existing |-> t.existing],
            !.genHist = [runs |-> @.runs + 1, ended |-> "toast", clean |-> t.clean,
                         prevClean |-> @.clean, before |-> t.before,
                         skipped |-> t.skipped]]

\* the for loop over allRecords moves on: await the next record's line items,
\* or leave the loop
genNextRecord(s, t) ==
  IF t.rec < NumRecords
  THEN [s EXCEPT !.genTasks = <<[t EXCEPT !.phase = "items", !.rec = t.rec + 1]>>]
  ELSE genToast(s, t)

\* the inner loop with the hasCardMeta test left out
RECURSIVE genLoop_Reinitialises(_, _, _)
genLoop_Reinitialises(s, t, items) ==
  IF items = {} THEN genNextRecord(s, t)
  ELSE LET i == CHOOSE x \in items : \A y \in items : x <= y
           rest == items \ {i}
       IN IF ~parseFlashcard(s.texts[i]) THEN genLoop_Reinitialises(s, t, rest)
          ELSE [s EXCEPT !.genTasks =
                  <<[t EXCEPT !.phase = "save", !.item = i, !.items = rest,
                              !.scanned = @ + 1,
                              !.props = cardToMeta(createEmptyCard(s.now))]>>]

\* the inner loop over the line items not yet visited, up to the next await
RECURSIVE genLoop(_, _, _)
genLoop(s, t, items) ==
  IF items = {} THEN genNextRecord(s, t)
  ELSE LET i == CHOOSE x \in items : \A y \in items : x <= y
           rest == items \ {i}
       IN IF ~parseFlashcard(s.texts[i]) THEN genLoop(s, t, rest)
          ELSE IF hasCardMeta(s.store[i])
          THEN genLoop(s, [t EXCEPT !.scanned = @ + 1, !.existing = @ + 1], rest)
          ELSE [s EXCEPT !.genTasks =
                  <<[t EXCEPT !.phase = "save", !.item = i, !.items = rest,
                              !.scanned = @ + 1,
                              !.props = cardToMeta(createEmptyCard(s.now))]>>]

\* generateFlashcards up to its first await (the task's clean, before and
\* skipped fields are history)
generateFlashcards(s) ==
  [s EXCEPT !.genTasks =
     <<[phase |-> "items", rec |-> 1, item |-> 0, items |-> {}, props |-> NoMeta,
        scanned |-> 0, created |-> 0, existing |-> 0,
        clean |-> TRUE, before |-> s.store, skipped |-> {}]>>]

\* the await of the suspended run settles: getLineItems with "ok" or "rejected"
\* (caught: the record is skipped), setMetaProperties with "ok", "false" (the
\* result is not looked at) or "rejected" (generateFlashcards throws)
genResume(s, outcome) ==
  LET t == s.genTasks[1]
  IN IF t.phase = "items"
     THEN IF outcome = "ok" THEN genLoop(s, t, ItemsOf(t.rec))
          ELSE genNextRecord(s, [t EXCEPT !.clean = FALSE,
                                          !.skipped = @ \cup {t.rec}])
     ELSE IF outcome = "rejected"
     THEN [s EXCEPT !.genTasks = <<>>,
                    !.genHist = [runs |-> @.runs + 1, ended |-> "rejected",
                                 clean |-> FALSE, prevClean |-> @.clean,
                                 before |-> t.before, skipped |-> t.skipped]]
     ELSE genLoop([s EXCEPT !.store[t.item] = IF outcome = "ok" THEN t.props ELSE @],
                  [t EXCEPT !.created = @ + 1,
                            !.clean = @ /\ outcome = "ok"],
                  t.items)

\* ---- cleanup and keys ------------------------------------------------------------
\* _cleanup that leaves the cursor where it was
cleanup_KeepsIndex(s) ==
  [s EXCEPT !.keyHandler = FALSE,
            !.dueCardsSet = FALSE,
            !.dueCards = <<>>,
            !.practiceRevealed = FALSE,
            !.statsSet = FALSE,
            !.practiceStats = ZeroStats,
            !.practiceRecordGuids = NoGuids,
            !.panelEl = FALSE]

cleanup(s) ==
  [s EXCEPT !.keyHandler = FALSE,
            !.dueCardsSet = FALSE,
            !.dueCards = <<>>,
            !.practiceIndex = 0,
            !.practiceRevealed = FALSE,
            !.statsSet = FALSE,
            !.practiceStats = ZeroStats,
            !.practiceRecordGuids = NoGuids,
            !.panelEl = FALSE]

\* this.ui.closePanel(panel)
closePanel(s) == [s EXCEPT !.screen = Blank, !.staleHandlers = 0]

\* const p = this._panel; this._cleanup(); if (p) this.ui.closePanel(p);
cleanupAndClose(s) == IF s.panelEl THEN closePanel(cleanup(s)) ELSE cleanup(s)

KeyMap(key) ==
  CASE key = "1" -> Again [] key = "2" -> Hard [] key = "3" -> Good
    [] key = "4" -> Easy [] OTHER -> 0

\* cardEl's click listener, attached only while the answer is hidden
clickCard(s) == renderCurrentCard([s EXCEPT !.practiceRevealed = TRUE])

\* handleKey in which Space on a revealed card hides the answer again
handleKey_SpaceToggles(s, key) ==
  IF s.practiceIndex >= Len(s.dueCards)
  THEN IF key = "Space" THEN cleanupAndClose(s) ELSE s
  ELSE IF key = "Space"
  THEN renderCurrentCard([s EXCEPT !.practiceRevealed = ~s.practiceRevealed])
  ELSE IF s.practiceRevealed /\ KeyMap(key) # 0 THEN rateCard(s, KeyMap(key)) ELSE s

handleKey(s, key) ==
  IF s.practiceIndex >= Len(s.dueCards)
  THEN IF key = "Space" THEN cleanupAndClose(s) ELSE s
  ELSE IF ~s.practiceRevealed
  THEN IF key = "Space" THEN renderCurrentCard([s EXCEPT !.practiceRevealed = TRUE]) ELSE s
  ELSE IF KeyMap(key) # 0 THEN rateCard(s, KeyMap(key)) ELSE s

\* the document dispatches keydown to its listeners in registration order: the
\* n stale ones, then this._keyHandler unless an earlier listener removed it
RECURSIVE dispatchKey(_, _, _)
dispatchKey(s, key, n) ==
  IF n > 0 THEN dispatchKey(handleKey(s, key), key, n - 1)
  ELSE IF s.keyHandler THEN handleKey(s, key)
  ELSE s

onUnload(s) == cleanup(s)

\* ---- session history (not program state) -------------------------------------
\* sess.orderly: the current session was installed with no save outstanding and
\* since then every rate event started exactly one rate step, with no other
\* save outstanding, and every save resolved true.  sess.given counts the
\* ratings given in an orderly session.
NoSess == [orderly |-> FALSE, given |-> ZeroStats]

\* last describes the step that led to the state: the outcome of the save that
\* settled, how the suspended _rateCard call ended (its promise resolved to
\* undefined, or rejected) and which call it was; NoLast after other steps
NoLast == [save |-> "none", result |-> "none", idx |-> 0, grade |-> 0, epoch |-> 0]

\* coll describes the collection whose result the step installed: its clock
\* reading, its allow-set and the records whose getLineItems threw; NoColl
\* after other steps
NoColl == [done |-> FALSE, now |-> 0, guids |-> NoGuids, skipped |-> {}]

\* how the last generateFlashcards run ended and what it found are history of
\* the steps of that run only
ForgetGen(h) == [h EXCEPT !.ended = "none", !.before = [i \in Items |-> NoMeta],
                          !.skipped = {}]

HistSession(s0, s1) ==
  IF s1.epoch > s0.epoch
  THEN [s1 EXCEPT !.sess = [orderly |-> s0.rateTasks = <<>>, given |-> ZeroStats],
                  !.rated = {},
                  !.last = NoLast, !.coll = NoColl, !.genHist = ForgetGen(@)]
  ELSE IF ~s1.dueCardsSet THEN [s1 EXCEPT !.sess = NoSess, !.rated = {}, !.last = NoLast,
                                          !.coll = NoColl, !.genHist = ForgetGen(@)]
  ELSE [s1 EXCEPT !.last = NoLast, !.coll = NoColl, !.genHist = ForgetGen(@)]

\* a step of generateFlashcards
HistGen(s0, s1) == [s1 EXCEPT !.last = NoLast, !.coll = NoColl]

\* the step resumed the k-th collection with outcome ok
HistCollect(s0, s1, k, ok) ==
  LET t == s0.collectTasks[k]
      h == HistSession(s0, s1)
  IN [h EXCEPT !.coll =
        IF s1.epoch > s0.epoch
        THEN [done |-> TRUE, now |-> t.now, guids |-> t.guids,
              skipped |-> IF ok THEN t.skipped ELSE t.skipped \cup {t.rec}]
        ELSE NoColl]

\* the step started a collection over guids, which ended at once when no
\* record passes the filter
HistStart(s0, s1, guids) ==
  LET h == HistSession(s0, s1)
  IN [h EXCEPT !.coll =
        IF s1.epoch > s0.epoch
        THEN [done |-> TRUE, now |-> s0.now, guids |-> guids, skipped |-> {}]
        ELSE NoColl]

HistRate(s0, s1, grade) ==
  LET issued == Len(s1.rateTasks) - Len(s0.rateTasks)
      ok == s0.sess.orderly /\ issued = 1 /\ s0.rateTasks = <<>>
  IN IF issued = 0 THEN HistSession(s0, s1)
     ELSE IF ok THEN [s1 EXCEPT !.sess.given[grade] = @ + 1, !.last = NoLast,
                                !.coll = NoColl, !.genHist = ForgetGen(@)]
     ELSE [s1 EXCEPT !.sess = NoSess, !.last = NoLast, !.coll = NoColl,
                     !.genHist = ForgetGen(@)]

\* the settled save belonged to the current session and wrote the rating
SavedHere(s0, s1, outcome) ==
  outcome = "ok" /\ s0.dueCardsSet /\ s1.last.epoch = s0.epoch

HistResume(s0, s1, outcome) ==
  LET h == [s1 EXCEPT !.rated = IF SavedHere(s0, s1, outcome)
                                THEN @ \cup {s1.last.idx} ELSE @,
                      !.coll = NoColl, !.genHist = ForgetGen(@)]
  IN IF s0.sess.orderly /\ outcome = "ok" THEN h ELSE [h EXCEPT !.sess = NoSess]

\* ---- specification -------------------------------------------------------------
NoToast == [shown |-> FALSE, scanned |-> 0, created |-> 0, existing |-> 0]
\* genHist: the number of runs that ended, how the last one ended ("toast",
\* or "rejected" when a save threw), whether every await of the last run and of
\* the run before it succeeded, the store as the last run found it, and the
\* records whose getLineItems threw in the last run
NoGenHist == [runs |-> 0, ended |-> "none", clean |-> FALSE, prevClean |-> FALSE,
              before |-> [i \in Items |-> NoMeta], skipped |-> {}]
NoProbe == [phase |-> "none", card |-> createEmptyCard(0), props |-> NoMeta,
            back |-> createEmptyCard(0)]

\* the plugin after onLoad: no session, nothing suspended
InitPlugin ==
  /\ dueCardsSet = FALSE
  /\ dueCards = <<>>
  /\ practiceIndex = 0
  /\ practiceRevealed = FALSE
  /\ statsSet = FALSE
  /\ practiceStats = ZeroStats
  /\ practiceRecordGuids = NoGuids
  /\ keyHandler = FALSE
  /\ staleHandlers = 0
  /\ panelEl = FALSE
  /\ screen = Blank
  /\ rateTasks = <<>>
  /\ collectTasks = <<>>
  /\ genTasks = <<>>
  /\ toast = NoToast
  /\ genHist = NoGenHist
  /\ epoch = 0
  /\ last = NoLast
  /\ sess = NoSess
  /\ rated = {}
  /\ coll = NoColl

\* the first MaxCards line items hold flashcard text, each either untracked or
\* carrying the card that generateFlashcards gave it at time 0
Init ==
  /\ InitPlugin
  /\ texts = [i \in Items |-> IF i <= MaxCards THEN "q :: a" ELSE "plain"]
  /\ store \in [Items -> {NoMeta, cardToMeta(createEmptyCard(0))}]
  /\ \A i \in Items : i > MaxCards => store[i] = NoMeta
  /\ now = 0
  /\ probe = NoProbe

CanCollect ==
  /\ Len(collectTasks) < MaxCollectTasks
  /\ epoch + Len(collectTasks) < MaxSessions

\* command "Flashcards: Practice"
PracticeFlashcards ==
  /\ CanCollect
  /\ Commit(HistStart(St, startPracticeSession(St, NoGuids), NoGuids))

\* command "Practice This Note": recordGuids = new Set([record.guid])
PracticeThisNote ==
  /\ CanCollect
  /\ \E r \in Records :
       LET guids == [all |-> FALSE, ids |-> {r}]
       IN Commit(HistStart(St, startPracticeSession(St, guids), guids))

\* command "Practice Collection": recordGuids = the guids of the collection's
\* records, of which there is at least one
PracticeCollection ==
  /\ CanCollect
  /\ \E ids \in (SUBSET Records) \ {{}} :
       LET guids == [all |-> FALSE, ids |-> ids]
       IN Commit(HistStart(St, startPracticeSession(St, guids), guids))

\* a pending record.getLineItems() settles
CollectResume ==
  \E k \in 1..Len(collectTasks), ok \in BOOLEAN :
    LET s1 == collectResume(St, k, ok)
    IN /\ s1.staleHandlers <= MaxHandlers
       /\ Commit(HistCollect(St, s1, k, ok))

\* the host runs the panel's render callback (panel restored or shown again)
RenderPanel ==
  LET s1 == renderPracticePanel(St)
  IN /\ dueCardsSet \/ CanCollect
     /\ s1.staleHandlers <= MaxHandlers
     /\ Commit(HistSession(St, s1))

KeyDown ==
  /\ keyHandler \/ staleHandlers > 0
  /\ \E key \in PressedKeys :
       LET s1 == dispatchKey(St, key, staleHandlers)
       IN /\ Len(s1.rateTasks) <= MaxRateTasks
          /\ Commit(HistRate(St, s1, KeyMap(key)))

\* click on the card face of the hidden screen
ClickCard ==
  /\ screen.kind = "hidden"
  /\ Commit(HistSession(St, clickCard(St)))

\* click on one of the four rating buttons of the revealed screen
ClickRate ==
  /\ screen.kind = "revealed"
  /\ \E grade \in RatedGrades :
       LET s1 == rateCard(St, grade)
       IN /\ Len(s1.rateTasks) <= MaxRateTasks
          /\ Commit(HistRate(St, s1, grade))

\* click on Close of the done screen
ClickClose ==
  /\ screen.kind = "done"
  /\ Commit(HistSession(St, cleanupAndClose(St)))

\* a pending setMetaProperties settles
RateResume ==
  \E k \in 1..Len(rateTasks), outcome \in {"ok", "false", "rejected"} :
    Commit(HistResume(St, rateCardResume(St, k, outcome), outcome))

\* command "Generate flashcards"; runs do not overlap
Generate ==
  /\ genTasks = <<>>
  /\ genHist.runs < MaxGenRuns
  /\ Commit(HistGen(St, generateFlashcards(St)))

\* the await of the suspended generateFlashcards settles
GenResume ==
  /\ genTasks # <<>>
  /\ \E outcome \in {"ok", "false", "rejected"} :
       /\ genTasks[1].phase = "items" => outcome # "false"
       /\ Commit(HistGen(St, genResume(St, outcome)))

\* the plugin is unloaded; the host removes its panel
Unload ==
  /\ dueCardsSet \/ keyHandler \/ panelEl
  /\ Commit(HistSession(St, closePanel(onUnload(St))))

Tick ==
  /\ now < MaxTime
  /\ now' = now + 1
  /\ last' = NoLast
  /\ coll' = NoColl
  /\ UNCHANGED <<dueCardsSet, dueCards, practiceIndex, practiceRevealed, statsSet,
                 practiceStats, practiceRecordGuids, keyHandler, staleHandlers,
                 panelEl, screen, store, rateTasks, collectTasks, epoch, sess, rated,
                 texts, genTasks, toast, genHist, probe>>

Next ==
  \/ PracticeFlashcards
  \/ PracticeThisNote
  \/ CollectResume
  \/ RenderPanel
  \/ KeyDown
  \/ ClickCard
  \/ ClickRate
  \/ ClickClose
  \/ RateResume
  \/ Unload
  \/ Tick

Spec == Init /\ [][Next]_vars

\* ---- properties ------------------------------------------------------------------
SumStats(st) == st[Again] + st[Hard] + st[Good] + st[Easy]

\* the suspended rate steps that were started in the current session
OwnTasks == {k \in DOMAIN rateTasks : rateTasks[k].epoch = epoch}

\* the step leading to the state settled the save of a rate step
Settled == last.save # "none"

\* C1: in every state of a practice session the four per-rating counters sum
\* to the cursor index (each queue entry is rated exactly once before the
\* cursor moves past it).
C1_CountersSumToCursor ==
  dueCardsSet => SumStats(practiceStats) = practiceIndex

\* C2: within one session at most one save is outstanding at any time (and so
\* never two saves to the same line item).
C2_OneOutstandingSave ==
  \A j, k \in DOMAIN rateTasks :
    rateTasks[j].epoch = rateTasks[k].epoch => j = k

\* C3: when a save issued by an earlier session settles after a new session
\* was installed, the settlement changes neither the cursor, nor the counters,
\* nor the reveal flag of the new session.
C3_NoLeakIntoNextSession ==
  [][(Settled' /\ dueCardsSet /\ last'.epoch < epoch)
       => /\ practiceIndex' = practiceIndex
          /\ practiceStats' = practiceStats
          /\ practiceRevealed' = practiceRevealed]_vars

\* C4: once cancelled (and until the next session is installed) the controller
\* is Idle: no queue, cursor 0, reveal flag false, no counters, whatever saves
\* were outstanding at the cancel and settle afterwards.
C4_IdleAfterCancel ==
  (epoch > 0 /\ ~dueCardsSet)
    => /\ dueCards = <<>>
       /\ practiceIndex = 0
       /\ ~practiceRevealed
       /\ ~statsSet

\* C5: when the save of the entry being rated fails (resolves false or
\* rejects), the session still advances: the cursor moves to the next entry
\* and the counter of the rating is incremented.
C5_FailedSaveStillAdvances ==
  [][(/\ Settled' /\ last'.save \in {"false", "rejected"}
      /\ dueCardsSet /\ last'.epoch = epoch /\ last'.idx = practiceIndex
      /\ Len(rateTasks) = 1)
       => /\ practiceIndex' = practiceIndex + 1
          /\ practiceStats' = [practiceStats EXCEPT ![last'.grade] = @ + 1]]_vars

\* what the caller of a rate step can observe once its save has settled: the
\* controller's fields and the way the _rateCard promise ended
Observable(s) ==
  <<s.dueCardsSet, s.dueCards, s.practiceIndex, s.practiceRevealed, s.statsSet,
    s.practiceStats, s.practiceRecordGuids, s.screen, s.last.result>>

\* C6: a failed save is never silently dropped: a rate step whose save failed
\* is distinguishable, in what the controller retains or returns, from the
\* same rate step with a successful save.
C6_FailedSaveObservable ==
  \A k \in DOMAIN rateTasks :
    \A failure \in {"false", "rejected"} :
      Observable(rateCardResume(St, k, failure)) # Observable(rateCardResume(St, k, "ok"))

\* C7: the cursor advances as soon as the save is requested: there is no state
\* in which the save of entry i is pending and the cursor still points at i.
C7_CursorAdvancesAtRequest ==
  dueCardsSet => \A k \in OwnTasks : rateTasks[k].idx # practiceIndex

\* C8: rate is valid only in ShowingRevealed: every scheduler application and
\* save request, every counter increment and every cursor advance happens
\* while the answer of the current entry is revealed and the cursor is inside
\* the queue.
C8_RateOnlyWhenRevealed ==
  [][(\/ Len(rateTasks') > Len(rateTasks)
      \/ (Settled' /\ (practiceStats' # practiceStats \/ practiceIndex' # practiceIndex)))
       => (practiceRevealed /\ practiceIndex < Len(dueCards))]_vars

\* C9: in a session of n >= 1 entries in which each entry in turn is revealed
\* and rated once, every save resolving true before the next event, the
\* counter of each rating is the number of times it was given, the cursor is
\* the number of ratings given, and Complete is reached exactly when n ratings
\* were given, the done screen reporting n reviewed cards.
C9_OrderlySessionCounts ==
  (sess.orderly /\ dueCardsSet /\ Len(dueCards) >= 1 /\ rateTasks = <<>>)
    => /\ practiceStats = sess.given
       /\ practiceIndex = SumStats(sess.given)
       /\ practiceIndex <= Len(dueCards)
       /\ practiceIndex = Len(dueCards)
            => screen = [kind |-> "done", idx |-> practiceIndex, total |-> Len(dueCards),
                         preview |-> NoPreview]
       /\ practiceIndex < Len(dueCards) => screen.kind \in {"hidden", "revealed"}

C9_Witness ==
  /\ sess.orderly /\ dueCardsSet /\ rateTasks = <<>>
  /\ Len(dueCards) = 2 /\ practiceIndex = 2
  /\ practiceStats = [ZeroStats EXCEPT ![Good] = 2]
  /\ screen.kind = "done"

\* C10: a session started with an empty due list is Complete at once with
\* total 0: no entry is shown, the four counters are 0, and no reveal or rate
\* event of that session applies the scheduler or requests a save.
C10_EmptySession ==
  (dueCardsSet /\ dueCards = <<>>)
    => /\ screen.kind = "empty" /\ screen.total = 0
       /\ practiceStats = ZeroStats
       /\ ~practiceRevealed
       /\ OwnTasks = {}

\* ---- reveal and cancel -----------------------------------------------------------
\* some keydown listener of the plugin is on the document
Listening == keyHandler \/ staleHandlers > 0

\* what a Space keydown makes of the current state
AfterSpace == dispatchKey(St, "Space", staleHandlers)

SameProgress(s) ==
  /\ s.practiceIndex = practiceIndex
  /\ s.practiceStats = practiceStats
  /\ s.store = store

\* C11 (as stated): a reveal event (Space or a click on the card) moves
\* ShowingHidden to ShowingRevealed and is a no-op otherwise: when the answer
\* is already revealed or the session is Complete it changes neither the
\* cursor, the reveal flag, the counters nor the persisted metadata, and in no
\* state does it change the cursor or the counters.
C11_RevealNoOpOtherwise ==
  /\ (Listening /\ dueCardsSet) => SameProgress(AfterSpace)
  /\ (Listening /\ dueCardsSet
        /\ (practiceRevealed \/ practiceIndex >= Len(dueCards)))
       => AfterSpace.practiceRevealed = practiceRevealed
  /\ screen.kind = "hidden" => SameProgress(clickCard(St))

\* C11 (amended): on a hidden entry Space or a click on the card sets the reveal
\* flag and shows the answer, changing neither the cursor, the counters nor
\* the persisted metadata; on a revealed entry Space changes nothing at all and
\* the card takes no click; at Complete Space is not a reveal but closes the
\* session: the queue and the counters are discarded and the cursor is reset
\* to 0, while the persisted metadata and the pending saves stay as they are.
C11_RevealEffect ==
  /\ (Listening /\ dueCardsSet /\ practiceIndex < Len(dueCards) /\ ~practiceRevealed)
       => /\ AfterSpace.practiceRevealed
          /\ SameProgress(AfterSpace)
          /\ AfterSpace.statsSet = statsSet
          /\ AfterSpace.rateTasks = rateTasks
          /\ panelEl => AfterSpace.screen.kind = "revealed"
  /\ screen.kind = "hidden"
       => /\ ~practiceRevealed /\ practiceIndex < Len(dueCards)
          /\ clickCard(St).practiceRevealed
          /\ SameProgress(clickCard(St))
          /\ clickCard(St).screen.kind = "revealed"
  /\ (Listening /\ dueCardsSet /\ practiceIndex < Len(dueCards) /\ practiceRevealed)
       => AfterSpace = St
  /\ (Listening /\ dueCardsSet /\ practiceIndex >= Len(dueCards))
       => /\ ~AfterSpace.dueCardsSet /\ AfterSpace.dueCards = <<>>
          /\ AfterSpace.practiceIndex = 0
          /\ ~AfterSpace.practiceRevealed
          /\ ~AfterSpace.statsSet
          /\ AfterSpace.store = store
          /\ AfterSpace.rateTasks = rateTasks

\* an answer has been revealed on the second entry of a session that is listening
C11_Witness ==
  /\ dueCardsSet /\ keyHandler /\ practiceRevealed
  /\ practiceIndex = 1 /\ Len(dueCards) = 2
  /\ screen.kind = "revealed"

\* C12: cancel (_cleanup) from any state of a session discards the queue, the
\* cursor, the reveal flag, the counters and the key handler and leaves the
\* persisted metadata of every line item as it is: the ratings already saved
\* stay saved, and the saves still pending are not withdrawn.
C12_CancelDiscardsSession ==
  [][(dueCardsSet /\ ~dueCardsSet')
       => /\ dueCards' = <<>>
          /\ practiceIndex' = 0
          /\ ~practiceRevealed'
          /\ ~statsSet' /\ practiceStats' = ZeroStats
          /\ practiceRecordGuids' = NoGuids
          /\ ~keyHandler' /\ ~panelEl'
          /\ store' = store
          /\ rateTasks' = rateTasks]_vars

\* a session in which a rating was saved has been cancelled
C12_Witness ==
  /\ ~dueCardsSet /\ epoch > 0 /\ practiceIndex = 0 /\ ~keyHandler
  /\ \E i \in Items : hasCardMeta(store[i]) /\ store[i].reps = 1

\* ---- the collector on its own -----------------------------------------------------
\* Workspaces for the collector: any text on any line item, each item untracked
\* or carrying a new card due at one of the times 0 .. MaxTime + 1; the clock
\* stands at any time up to MaxTime and nothing is saved while a collection runs.
CollectProps == {NoMeta} \cup {cardToMeta(createEmptyCard(d)) : d \in 0..(MaxTime + 1)}

InitCollect ==
  /\ InitPlugin
  /\ texts \in [Items -> {"q :: a", "plain", "q ::"}]
  /\ store \in [Items -> CollectProps]
  /\ now \in 0..MaxTime
  /\ probe = NoProbe

NextCollect ==
  \/ PracticeFlashcards
  \/ PracticeThisNote
  \/ PracticeCollection
  \/ CollectResume

SpecCollect == InitCollect /\ [][NextCollect]_vars

\* line item i is enumerated before line item j: record order, then line order
EnumBefore(i, j) ==
  \/ RecordOf(i) < RecordOf(j)
  \/ RecordOf(i) = RecordOf(j) /\ i < j

\* the tracked flashcard items that are due at the collection's clock reading
DueItems == {i \in Items : /\ parseFlashcard(texts[i])
                           /\ hasCardMeta(store[i])
                           /\ DateLE(metaToCard(store[i]).due, coll.now)}

\* the line items of the records the collection enumerated
Enumerated == {i \in Items : /\ InFilter(coll.guids, RecordOf(i))
                             /\ RecordOf(i) \notin coll.skipped}

QueueItems == {dueCards[j].lineItem : j \in DOMAIN dueCards}

CollectorExact ==
  /\ QueueItems = DueItems \cap Enumerated
  /\ Len(dueCards) = Cardinality(QueueItems)
  /\ \A j \in DOMAIN dueCards : dueCards[j].card = metaToCard(store[dueCards[j].lineItem])
  /\ \A j, k \in DOMAIN dueCards :
       j < k => \/ dueCards[j].card.due < dueCards[k].card.due
                \/ /\ dueCards[j].card.due = dueCards[k].card.due
                   /\ EnumBefore(dueCards[j].lineItem, dueCards[k].lineItem)

\* C13: the collector returns exactly the tracked flashcard items (of the
\* records it enumerated) whose due is not after its clock reading, each once,
\* with the card read from its metadata, ascending by due, entries of equal due
\* in enumeration order (record order, then line order); the step that
\* delivers the result changes no line item's text or metadata.
C13_CollectorExactSorted ==
  [][coll'.done => (CollectorExact' /\ store' = store /\ texts' = texts)]_vars

\* a queue of three in which the two entries due first are tied and stand in
\* enumeration order, which is not line item order
C13_Witness ==
  /\ coll.done /\ Len(dueCards) = 3
  /\ dueCards[1].lineItem = 3 /\ dueCards[2].lineItem = 2 /\ dueCards[3].lineItem = 1
  /\ dueCards[1].card.due = dueCards[2].card.due
  /\ dueCards[2].card.due < dueCards[3].card.due

\* C14: when an allow-set of records is given, every entry of the resulting
\* queue belongs to a record of the allow-set and every due tracked flashcard
\* item of an allowed (and enumerated) record is in the queue; with no
\* allow-set the due tracked flashcard items of all enumerated records are.
C14_AllowSetFilter ==
  coll.done =>
    /\ ~coll.guids.all =>
         \A j \in DOMAIN dueCards : RecordOf(dueCards[j].lineItem) \in coll.guids.ids
    /\ \A i \in DueItems :
         (/\ coll.guids.all \/ RecordOf(i) \in coll.guids.ids
          /\ RecordOf(i) \notin coll.skipped)
           => i \in QueueItems

\* a collection scoped to record 1 has queued that record's two due items
\* and left out the due item of record 2
C14_Witness ==
  /\ coll.done /\ ~coll.guids.all /\ coll.guids.ids = {1} /\ coll.skipped = {}
  /\ QueueItems = {1, 3}
  /\ 2 \in DueItems

\* C20: a flashcard item without stored card metadata (no due property) is
\* untracked: it is never in the collected queue, the collection completes
\* all the same, and the due tracked flashcard items around it, in the same
\* record and in later records, are collected.
C20_UntrackedNotCollected ==
  coll.done =>
    /\ \A j \in DOMAIN dueCards : hasCardMeta(store[dueCards[j].lineItem])
    /\ \A i \in Items :
         (parseFlashcard(texts[i]) /\ ~hasCardMeta(store[i]))
           => /\ i \notin QueueItems
              /\ \A k \in DueItems \cap Enumerated :
                   (RecordOf(k) >= RecordOf(i)) => k \in QueueItems

\* record 1 starts with an untracked flashcard item; the due item after it in
\* the record and the due item of record 2 are both in the queue
C20_Witness ==
  /\ coll.done /\ coll.guids.all /\ coll.skipped = {}
  /\ parseFlashcard(texts[1]) /\ ~hasCardMeta(store[1])
  /\ QueueItems = {2, 3}

\* ---- the conversions on their own -------------------------------------------------
NumericFields == {"stability", "difficulty", "elapsed_days", "scheduled_days",
                  "reps", "lapses", "learning_steps"}

\* cards with any state, last_review present or absent, counters >= 0
ValidCards ==
  [due : 0..(MaxTime + 1), stability : {0, 1}, difficulty : {0, 5},
   elapsed_days : {0, 1}, scheduled_days : {0, 1}, reps : 0..MaxReps,
   lapses : {0, 1}, learning_steps : {0, 1},
   state : {StateNew, StateLearning, StateReview, StateRelearning},
   last_review : {NoValue} \cup (0..MaxTime)]

\* metadata as a line item may hold it: a due date, and every other property a
\* number, a non-number, or missing
StoredProps ==
  [due : {toISOString(0)},
   stability : {NoValue, Garbage, 0, 2}, difficulty : {NoValue, Garbage, 0, 2},
   elapsed_days : {NoValue, Garbage, 0, 2}, scheduled_days : {NoValue, Garbage, 0, 2},
   reps : {NoValue, Garbage, 0, 2}, lapses : {NoValue, Garbage, 0, 2},
   learning_steps : {NoValue, Garbage, 0, 2},
   state : {NoValue, Null, Garbage, StateNew, StateRelearning},
   last_review : {Null, toISOString(0)}]

InitMeta ==
  /\ InitPlugin
  /\ texts = [i \in Items |-> "plain"]
  /\ store = [i \in Items |-> NoMeta]
  /\ now = 0
  /\ \/ \E c \in ValidCards : probe = [NoProbe EXCEPT !.phase = "card", !.card = c]
     \/ \E p \in StoredProps : probe = [NoProbe EXCEPT !.phase = "stored", !.props = p]

\* cardToMeta(lineItem, card) hands the properties to the line item
Persist ==
  /\ probe.phase = "card"
  /\ Commit([St EXCEPT !.probe = [@ EXCEPT !.phase = "saved",
                                           !.props = cardToMeta(probe.card)]])

\* metaToCard(lineItem) reads them back
Reload ==
  /\ probe.phase \in {"saved", "stored"}
  /\ Commit([St EXCEPT !.probe = [@ EXCEPT !.phase = IF probe.phase = "saved"
                                                     THEN "loaded" ELSE "read",
                                           !.back = metaToCard(probe.props)]])

NextMeta == Persist \/ Reload

SpecMeta == InitMeta /\ [][NextMeta]_vars

\* C15: a line item whose persisted state is absent or not a number is read
\* by metaToCard as a card in state New.
C15_MissingStateIsNew ==
  (probe.phase = "read" /\ ~IsNumber(probe.props.state))
    => probe.back.state = StateNew

\* C16: each of stability, difficulty, elapsed_days, scheduled_days, reps,
\* lapses and learning_steps is read by metaToCard as 0 when the persisted
\* value is missing or not a number, and as the persisted number otherwise.
C16_NumericDefaultZero ==
  probe.phase = "read" =>
    \A f \in NumericFields :
      /\ ~IsNumber(probe.props[f]) => probe.back[f] = 0
      /\ IsNumber(probe.props[f]) => probe.back[f] = probe.props[f]

\* metadata with a missing, a non-numeric, a zero and a positive counter was read
C16_Witness ==
  /\ probe.phase = "read"
  /\ probe.props.reps = NoValue /\ probe.back.reps = 0
  /\ probe.props.stability = Garbage /\ probe.back.stability = 0
  /\ probe.props.lapses = 2 /\ probe.back.lapses = 2
  /\ probe.props.learning_steps = 0 /\ probe.back.learning_steps = 0

\* C17: a valid card (any of the four states, last_review present or absent,
\* counters >= 0) saved with cardToMeta and read back with metaToCard is the
\* same card in all ten fields.
C17_RoundTrip ==
  probe.phase = "loaded" => probe.back = probe.card

\* a reviewed card with a last_review at time 0, and positive counters, came back
C17_Witness ==
  /\ probe.phase = "loaded"
  /\ probe.card.state = StateReview /\ probe.card.last_review = 0
  /\ probe.card.reps = MaxReps /\ probe.card.lapses = 1
  /\ probe.props.last_review = toISOString(0)
  /\ probe.back.last_review = 0

\* ---- generation on its own ----------------------------------------------------------
reviewedCard == f_next(createEmptyCard(0), 0, Good)

\* Workspaces for generateFlashcards: any text on any line item, each item
\* untracked, carrying a new card, or carrying a reviewed card; nothing else
\* writes metadata while a run is suspended.
InitGenerate ==
  /\ InitPlugin
  /\ texts \in [Items -> {"q :: a", "plain", ":: a"}]
  /\ store \in [Items -> {NoMeta, cardToMeta(createEmptyCard(0)), cardToMeta(reviewedCard)}]
  /\ now = 0
  /\ probe = NoProbe

NextGenerate == Generate \/ GenResume \/ Tick

SpecGenerate == InitGenerate /\ [][NextGenerate]_vars

\* the flashcard items the last run found without card metadata
Fresh == {i \in Items : parseFlashcard(texts[i]) /\ ~hasCardMeta(genHist.before[i])}

\* the flashcard items the last run found tracked
Tracked == {i \in Items : parseFlashcard(texts[i]) /\ hasCardMeta(genHist.before[i])}

IsEmptyCardMeta(props) ==
  /\ hasCardMeta(props)
  /\ props.state = StateNew
  /\ props.reps = 0 /\ props.lapses = 0 /\ props.learning_steps = 0
  /\ props.last_review = Null

\* C18: a run of generateFlashcards writes metadata to no line item other than
\* the flashcard items it found without card metadata, and its toast has
\* scanned = created + existing; when every await of the run succeeded, each of
\* those items now holds an empty card (New, reps = lapses = learning_steps =
\* 0), created and existing count the two kinds of flashcard item, and a run
\* that follows such a run with no new items creates 0 cards and writes nothing.
C18_GenerateOnlyUntracked ==
  (genTasks = <<>> /\ genHist.ended = "toast") =>
    /\ toast.shown
    /\ toast.scanned = toast.created + toast.existing
    /\ \A i \in Items \ Fresh : store[i] = genHist.before[i]
    /\ genHist.clean =>
         /\ \A i \in Fresh : IsEmptyCardMeta(store[i])
         /\ toast.created = Cardinality(Fresh)
         /\ toast.existing = Cardinality(Tracked)
         /\ genHist.prevClean => (toast.created = 0 /\ store = genHist.before)

\* a second run has ended after a first that gave line item 1 its card at
\* time 1: it found all three flashcards tracked and created none
C18_Witness ==
  /\ genTasks = <<>> /\ genHist.runs = 2 /\ genHist.ended = "toast"
  /\ genHist.clean /\ genHist.prevClean
  /\ toast.created = 0 /\ toast.existing = 3
  /\ store[1] = cardToMeta(createEmptyCard(1))
  /\ store[2] = cardToMeta(reviewedCard)

\* ---- generation, collection and rating together --------------------------------------
\* The commands and rating clicks are issued one at a time here: a generation
\* starts when no collection or save is suspended, and a practice session is
\* started, and a rating given, when no generation is.
GenerateCmd == rateTasks = <<>> /\ collectTasks = <<>> /\ Generate
PracticeCmd == genTasks = <<>> /\ PracticeFlashcards
RateCmd == genTasks = <<>> /\ ClickRate

NextCards ==
  \/ GenerateCmd
  \/ GenResume
  \/ PracticeCmd
  \/ CollectResume
  \/ ClickCard
  \/ RateCmd
  \/ RateResume
  \/ Tick

\* the workspace of Init in which no flashcard is tracked yet: every card
\* comes from a generateFlashcards run
InitCards == Init /\ store = [i \in Items |-> NoMeta]

SpecCards == InitCards /\ [][NextCards]_vars

NewIffUnreviewed(card) ==
  (card.state = StateNew) <=> (card.reps = 0 /\ card.last_review = NoValue)

\* C19: every card in the session queue, and every card read from the metadata
\* persisted on a line item, after any sequence of generate, collect and rate
\* steps, has state New if and only if its reps is 0 and it has no last_review.
C19_NewIffUnreviewed ==
  /\ \A j \in DOMAIN dueCards : NewIffUnreviewed(dueCards[j].card)
  /\ \A i \in Items : hasCardMeta(store[i]) => NewIffUnreviewed(metaToCard(store[i]))

\* a card generated here was rated twice, in two sessions, and a new card
\* generated for the other flashcard is in the queue
C19_Witness ==
  /\ genHist.runs >= 1
  /\ \E i \in Items : hasCardMeta(store[i]) /\ metaToCard(store[i]).reps = 2
  /\ \E j \in DOMAIN dueCards : dueCards[j].card.state = StateNew

\* ---- preview and apply ---------------------------------------------------------------
\* the clock reading the revealed screen's preview was computed at (f.next
\* stamps it on last_review)
PreviewTime == screen.preview[Again].last_review

\* the save a rating with grade g would request now
RequestedBy(g) ==
  LET s1 == rateCard(St, g)
  IN s1.rateTasks[Len(s1.rateTasks)]

C22_NewCardRated ==
  /\ [](
       (dueCardsSet /\ practiceIndex < Len(dueCards)
          /\ dueCards[practiceIndex + 1].card.state = StateNew)
         => \A g \in Grades :
              /\ RequestedBy(g).props.state # StateNew
              /\ RequestedBy(g).props.reps = 1
              /\ RequestedBy(g).props.last_review = toISOString(now)
              /\ g = Good => RequestedBy(g).props.state = StateLearning)
  /\ [][last'.save = "ok"
          => \E k \in DOMAIN rateTasks :
               /\ rateTasks' = RemoveAt(rateTasks, k)
               /\ rateTasks[k].idx = last'.idx /\ rateTasks[k].grade = last'.grade
               /\ store'[rateTasks[k].lineItem] = rateTasks[k].props]_vars

\* the save of a New card rated Good at time 1 has resolved true
C22_Witness ==
  /\ last.save = "ok" /\ last.grade = Good
  /\ \E i \in Items :
       /\ store[i].state = StateLearning /\ store[i].reps = 1
       /\ store[i].last_review = toISOString(1)

\* C23: at most one practice keydown handler is registered on the document at
\* any time, after any sequence of session starts, panel renders, cleanups
\* and unloads; so one key press is handled at most once and starts at most
\* one rate step.
C23_OneKeyHandler ==
  /\ staleHandlers + (IF keyHandler THEN 1 ELSE 0) <= 1
  /\ \A key \in PressedKeys :
       Len(dispatchKey(St, key, staleHandlers).rateTasks) <= Len(rateTasks) + 1

\* C24: whenever a session queue exists, 0 <= cursor <= queue length, and
\* within one session the cursor never decreases and changes only by +1, under
\* any interleaving of rate events, save completions, cancels and session
\* starts.
C24_CursorBoundedMonotone ==
  /\ [](dueCardsSet => (practiceIndex >= 0 /\ practiceIndex <= Len(dueCards)))
  /\ [][(dueCardsSet /\ dueCardsSet' /\ epoch' = epoch)
          => practiceIndex' \in {practiceIndex, practiceIndex + 1}]_vars

\* C25: the session queue is an immutable snapshot: between a session's start
\* and its completion or cancel no step adds, removes or reorders queue
\* entries, the total shown is the queue length, and an entry whose rating
\* was saved in this session is not presented again in it.
C25_QueueImmutable ==
  /\ [][(dueCardsSet /\ dueCardsSet' /\ epoch' = epoch) => dueCards' = dueCards]_vars
  /\ []((dueCardsSet /\ screen.kind \in {"hidden", "revealed"})
          => (screen.total = Len(dueCards) /\ screen.idx \notin rated))

\* ---------------------------------------------------------------------------
\* Sessions under a persistent user and a store that writes: every save
\* completes successfully, nothing is generated and the plugin stays loaded.
\* ---------------------------------------------------------------------------

\* a pending setMetaProperties resolves with a written value
SaveCompletes ==
  \E k \in 1..Len(rateTasks) :
    Commit(HistResume(St, rateCardResume(St, k, "ok"), "ok"))

NextLive ==
  \/ PracticeFlashcards
  \/ PracticeThisNote
  \/ CollectResume
  \/ RenderPanel
  \/ KeyDown
  \/ ClickCard
  \/ ClickRate
  \/ ClickClose
  \/ SaveCompletes
  \/ Tick

\* the user keeps revealing and rating what the panel shows, and the event
\* loop runs the continuation of every save that has resolved
SpecLive ==
  /\ Init
  /\ [][NextLive]_vars
  /\ WF_vars(ClickCard)
  /\ WF_vars(ClickRate)
  /\ WF_vars(SaveCompletes)

Complete == dueCardsSet /\ practiceIndex = Len(dueCards)

\* C26: a session terminates: while the user keeps revealing and rating and
\* the saves complete, every session that is not cancelled or replaced
\* reaches Complete (cursor = queue length), and once Complete it stays
\* Complete until it is closed or a new session is started.
C26_SessionTerminates ==
  /\ \A e \in 1..MaxSessions :
       (dueCardsSet /\ epoch = e) ~> (~(dueCardsSet /\ epoch = e) \/ Complete)
  /\ [][(Complete /\ dueCardsSet' /\ epoch' = epoch) => Complete']_vars

\* ---------------------------------------------------------------------------
\* Records whose line items cannot be read: collections and generation runs,
\* issued one at a time, in which any getLineItems may throw and every save
\* is written.
\* ---------------------------------------------------------------------------

InitSkip ==
  /\ InitPlugin
  /\ texts \in [Items -> {"q :: a", "plain"}]
  /\ store \in [Items -> CollectProps]
  /\ now = 0
  /\ probe = NoProbe

\* the await of the suspended generateFlashcards settles: getLineItems with
\* "ok" or "rejected", setMetaProperties with "ok"
GenResumeSaved ==
  /\ genTasks # <<>>
  /\ \E outcome \in {"ok", "rejected"} :
       /\ genTasks[1].phase = "save" => outcome = "ok"
       /\ Commit(HistGen(St, genResume(St, outcome)))

PracticeCollectionCmd == genTasks = <<>> /\ PracticeCollection

NextSkip ==
  \/ GenerateCmd
  \/ GenResumeSaved
  \/ PracticeCmd
  \/ PracticeCollectionCmd
  \/ CollectResume
  \/ Tick

SpecSkip == InitSkip /\ [][NextSkip]_vars

\* the entries the collector's loops push over the records recs, in record
\* order, when every getLineItems succeeds
RECURSIVE DueOfRecords(_, _, _, _)
DueOfRecords(tx, st, t, recs) ==
  IF recs = {} THEN <<>>
  ELSE LET r == CHOOSE x \in recs : \A y \in recs : x <= y
       IN DueOfItems(tx, st, t, ItemsOf(r)) \o DueOfRecords(tx, st, t, recs \ {r})

\* the queue the last collection would have returned, at its clock reading and
\* under its filter, from a workspace without the records whose getLineItems
\* threw
QueueWithoutSkipped ==
  SortByDue(DueOfRecords(texts, store, coll.now,
                         {r \in Records : InFilter(coll.guids, r)} \ coll.skipped))

\* the flashcard items of the records the last generation run could read
GenRead == {i \in Items : parseFlashcard(texts[i]) /\ RecordOf(i) \notin genHist.skipped}

\* C27: a record whose getLineItems throws is skipped by the collector and by
\* generateFlashcards without aborting the pass: the collector returns the
\* queue, in the order, it would return if the failing records did not
\* exist; a generation run still ends with its toast, leaves the items of
\* the failing records as they were, and has scanned, and given an empty card
\* to each untracked one of, the flashcard items of the other records.
C27_FailingRecordSkipped ==
  /\ coll.done => dueCards = QueueWithoutSkipped
  /\ genHist.ended # "rejected"
  /\ (genTasks = <<>> /\ genHist.ended = "toast") =>
       /\ toast.shown
       /\ toast.scanned = Cardinality(GenRead)
       /\ toast.created = Cardinality(GenRead \cap Fresh)
       /\ \A i \in GenRead \cap Fresh : IsEmptyCardMeta(store[i])
       /\ \A i \in Items \ (GenRead \cap Fresh) : store[i] = genHist.before[i]

\* a generation run that could not read record 1 gave line item 2 of record
\* 2 its card and left the untracked flashcard of line item 1 alone; then a
\* collection that could not read record 1, where the tracked flashcard of
\* line item 3 is due, returned line item 2
C27_Witness ==
  /\ coll.done /\ coll.skipped = {1} /\ coll.guids.all
  /\ Len(dueCards) = 1 /\ dueCards[1].lineItem = 2
  /\ parseFlashcard(texts[3]) /\ hasCardMeta(store[3])
  /\ DateLE(metaToCard(store[3]).due, coll.now)
  /\ genHist.runs >= 1
  /\ parseFlashcard(texts[1]) /\ store[1] = NoMeta
  /\ store[2] = cardToMeta(createEmptyCard(0))

====
